---- MODULE Spec2Model ----
(***************************************************************************)
(* genmethods: the generator of the Slack method bindings, and the         *)
(* behaviour of the code it emits (constructor, setters, Values, Do).      *)
(*                                                                         *)
(*   SpecCamel  camelit applied to bounded input strings                   *)
(*   SpecGen    one run of _main over a catalog, with I/O outcomes         *)
(*   Spec       one emitted call object: constructor, setters, Values, Do  *)
(*   SpecSet    two emitted call objects under constructor and setters     *)
(***************************************************************************)
EXTENDS Integers, Sequences, FiniteSets, TLC

VARIABLES
    cin, cout, cpc,                       \* camelit: argument, result, position
    gpc, catalog, groups, group, pending, \* _main: position and locals
    units, gerr, faults,                  \* files on disk, returned error, I/O faults seen
    endpoint, token,                      \* the endpoint the code was emitted for, service token
    calls, built, hist,                   \* call objects: fields, constructed, setter history
    posted, last                          \* postForm calls issued, last Values/Do result

camelVars == <<cin, cout, cpc>>
genVars   == <<gpc, catalog, groups, group, pending, units, gerr, faults>>
callVars  == <<endpoint, token, calls, built, hist, posted, last>>
vars      == <<cin, cout, cpc, gpc, catalog, groups, group, pending, units, gerr,
               faults, endpoint, token, calls, built, hist, posted, last>>

(***************************************************************************)
(* Bounds                                                                  *)
(***************************************************************************)
MaxLen == 4        \* longest camelit input explored
MaxInt == 1        \* integer field values range over -MaxInt..MaxInt
MaxList == 2       \* longest list field explored
MaxPosts == 2      \* postForm calls explored per behaviour
CatalogSize == 3   \* endpoints in the catalog of a generator run

(***************************************************************************)
(* Strings: bytes, ordering, the library calls the generator uses          *)
(***************************************************************************)
Ascii == ".0123456789ABCDEFGHIJKLMNOPQRSTUVWXYZ_abcdefghijklmnopqrstuvwxyz"
UpperLetters == "ABCDEFGHIJKLMNOPQRSTUVWXYZ"
LowerLetters == "abcdefghijklmnopqrstuvwxyz"

At(s, i) == SubSeq(s, i, i)

IndexIn(table, ch) ==
    IF \E i \in 1..Len(table) : At(table, i) = ch
    THEN CHOOSE i \in 1..Len(table) : At(table, i) = ch
    ELSE 0

Ord(ch) == IndexIn(Ascii, ch)

\* unicode.ToUpper on the bytes of Ascii
ToUpper(r) ==
    LET i == IndexIn(LowerLetters, r)
    IN IF i > 0 THEN At(UpperLetters, i) ELSE r

RECURSIVE StrLess(_, _)
\* strings.Compare(a, b) < 0
StrLess(a, b) ==
    IF Len(b) = 0 THEN FALSE
    ELSE IF Len(a) = 0 THEN TRUE
    ELSE IF Head(a) = Head(b) THEN StrLess(Tail(a), Tail(b))
    ELSE Ord(Head(a)) < Ord(Head(b))

\* strings.LastIndexByte(s, '.'), 1-based; 0 when there is none
LastDot(s) ==
    IF \E i \in 1..Len(s) : At(s, i) = "."
    THEN CHOOSE i \in 1..Len(s) :
            At(s, i) = "." /\ \A j \in (i+1)..Len(s) : At(s, j) # "."
    ELSE 0

RECURSIVE DotsToUnderscores(_)
\* strings.Replace(s, ".", "_", -1)
DotsToUnderscores(s) ==
    IF Len(s) = 0 THEN ""
    ELSE (IF Head(s) = "." THEN "_" ELSE Head(s)) \o DotsToUnderscores(Tail(s))

HasSuffix(s, suf) ==
    Len(s) >= Len(suf) /\ SubSeq(s, Len(s) - Len(suf) + 1, Len(s)) = suf

(***************************************************************************)
(* camelit                                                                 *)
(***************************************************************************)
IsSeparator(r) == r = "." \/ r = "_"

RECURSIVE CamelLoop(_, _, _, _)
\* the range loop of camelit from byte i on, with the buffer and upnext so far
CamelLoop(s, i, upnext, buf) ==
    IF i > Len(s) THEN buf
    ELSE LET r == At(s, i)
         IN IF i = 1 \/ upnext
            THEN CamelLoop(s, i + 1, FALSE, buf \o ToUpper(r))
            ELSE IF IsSeparator(r)
                 THEN CamelLoop(s, i + 1, TRUE, buf)
                 ELSE CamelLoop(s, i + 1, upnext, buf \o r)

camelit(s) == CamelLoop(s, 1, FALSE, "")

CamelAlphabet == {"a", "B", ".", "_"}

RECURSIVE StringsUpTo(_)
StringsUpTo(n) ==
    IF n = 0 THEN {""}
    ELSE LET shorter == StringsUpTo(n - 1)
         IN shorter \cup {s \o c : s \in {t \in shorter : Len(t) = n - 1}, c \in CamelAlphabet}

CamelInputs == StringsUpTo(MaxLen) \cup {"chat.postMessage", "a_b.c", "ChatPostMessage"}

CamelIdle == cin = "" /\ cout = "" /\ cpc = "idle"

CamelCall ==
    /\ cpc = "call"
    /\ cout' = camelit(cin)
    /\ cpc' = "done"
    /\ UNCHANGED <<cin, genVars, callVars>>

(***************************************************************************)
(* The catalog (endpoints.json)                                            *)
(***************************************************************************)
Arg(name, type, required, queryName) ==
    [Name |-> name, Type |-> type, Required |-> required, QueryName |-> queryName]

Ep(name, grp, json, args, return, skipToken) ==
    [file |-> "", methodName |-> "", Group |-> grp, Name |-> name, JSON |-> json,
     Args |-> args, ReturnType |-> return, SkipToken |-> skipToken]

\* Endpoint definitions in the shape of endpoints.json; arguments are listed in an
\* order that is not the sorted one.
Endpoints == <<
    Ep("chat.postMessage", "", "", <<Arg("text", "string", FALSE, ""),
                                     Arg("channel", "string", TRUE, "")>>, "", FALSE),
    Ep("chat.update", "", "message",
       <<Arg("ts", "int", TRUE, ""),
         Arg("attachments", "objects.AttachmentList", FALSE, "")>>, "objects.Message", FALSE),
    Ep("users.profile.set", "UsersProfile", "",
       <<Arg("user", "*objects.User", TRUE, ""),
         Arg("all", "bool", TRUE, "everyone"),
         Arg("as_user", "bool", FALSE, "")>>, "", FALSE),
    Ep("oauth.access", "OAuth", "channels",
       <<Arg("scopes", "objects.ScopeList", TRUE, "scope"),
         Arg("profile", "*objects.Profile", FALSE, "")>>, "objects.ChannelList", TRUE),
    Ep("im.history", "", "",
       <<Arg("count", "int", FALSE, "limit"),
         Arg("channel", "string", TRUE, "")>>, "", FALSE) >>

Range(f) == {f[i] : i \in DOMAIN f}

\* every listing of the elements of a sequence without repetition
Orderings(s) ==
    {p \in [1..Len(s) -> Range(s)] : \A i, j \in 1..Len(s) : i # j => p[i] # p[j]}

\* an endpoint definition with its arguments in any catalog order
Variants(e) == {[e EXCEPT !.Args = p] : p \in Orderings(e.Args)}

(***************************************************************************)
(* sort.Slice by Name (names are unique within what is sorted)             *)
(***************************************************************************)
RECURSIVE InsertByName(_, _)
InsertByName(x, s) ==
    IF s = <<>> THEN <<x>>
    ELSE IF StrLess(x.Name, Head(s).Name) THEN <<x>> \o s
    ELSE <<Head(s)>> \o InsertByName(x, Tail(s))

RECURSIVE SortByName(_)
SortByName(s) == IF s = <<>> THEN <<>> ELSE InsertByName(Head(s), SortByName(Tail(s)))

SortArgsKeepOrder(args) == args

\* sort.Slice(endpoint.Args, ...) of generateServiceDetailsFile
SortArgs(args) == SortByName(args)

\* sort.Slice(endpoints, ...) of generateServiceDetailsFile
SortEndpoints(eps) == SortByName(eps)

RECURSIVE InsertStr(_, _)
InsertStr(x, s) ==
    IF s = <<>> THEN <<x>>
    ELSE IF StrLess(x, Head(s)) THEN <<x>> \o s
    ELSE <<Head(s)>> \o InsertStr(x, Tail(s))

RECURSIVE SortStrings(_)
\* sort.Strings over the keys of a map
SortStrings(S) ==
    IF S = {} THEN <<>>
    ELSE LET x == CHOOSE y \in S : TRUE IN InsertStr(x, SortStrings(S \ {x}))

(***************************************************************************)
(* _main                                                                   *)
(***************************************************************************)
Wrap(cause, msg) == msg \o ": " \o cause

\* the body of the loop over the decoded endpoints
Derive(e) ==
    LET i == LastDot(e.Name)
        ns == SubSeq(e.Name, 1, i - 1)
    IN [e EXCEPT !.file = DotsToUnderscores(ns) \o ".go",
                 !.Group = IF Len(e.Group) = 0 THEN camelit(ns) ELSE e.Group,
                 !.methodName = camelit(SubSeq(e.Name, i + 1, Len(e.Name)))]

RECURSIVE GroupLoop(_, _)
\* group[endpoint.file] = append(group[endpoint.file], endpoint), in catalog order
GroupLoop(eps, acc) ==
    IF eps = <<>> THEN acc
    ELSE LET e == Derive(Head(eps))
             old == IF e.file \in DOMAIN acc THEN acc[e.file] ELSE <<>>
         IN GroupLoop(Tail(eps),
                [f \in DOMAIN acc \cup {e.file} |->
                    IF f = e.file THEN Append(old, e) ELSE acc[f]])

\* what generateServicesFile puts in the buffer: one service type per group
ServicesBody(gs) == SortStrings(gs)

\* what generateServiceDetailsFile puts in the buffer: per endpoint, in sorted
\* order, the call type, constructor, setters, Values and Do of that endpoint
DetailsBody(eps) ==
    LET sorted == SortEndpoints(eps)
    IN [i \in 1..Len(sorted) |-> [sorted[i] EXCEPT !.Args = SortArgs(sorted[i].Args)]]

NoFile == [f \in {} |-> <<>>]

SetUnit(fs, f, body, complete) ==
    [g \in DOMAIN fs \cup {f} |->
        IF g = f THEN [body |-> body, complete |-> complete] ELSE fs[g]]

GenIdle ==
    /\ gpc = "idle" /\ catalog = <<>> /\ groups = {} /\ group = NoFile
    /\ pending = {} /\ units = NoFile /\ gerr = "" /\ faults = {}

Fail(unit, kind, msg) ==
    /\ gpc' = "failed"
    /\ gerr' = msg
    /\ faults' = faults \cup {[unit |-> unit, kind |-> kind]}

OpenCatalog ==
    /\ gpc = "open"
    /\ \/ gpc' = "decode" /\ UNCHANGED <<gerr, faults>>
       \/ Fail("endpoints.json", "open", Wrap("ENOENT", "failed to open endpoints.json"))
    /\ UNCHANGED <<catalog, groups, group, pending, units, camelVars, callVars>>

DecodeCatalog ==
    /\ gpc = "decode"
    /\ \/ gpc' = "group" /\ UNCHANGED <<gerr, faults>>
       \/ Fail("endpoints.json", "decode", Wrap("EOF", "failed to decode endpoints.json"))
    /\ UNCHANGED <<catalog, groups, group, pending, units, camelVars, callVars>>

GroupEndpoints ==
    /\ gpc = "group"
    /\ group' = GroupLoop(catalog, NoFile)
    /\ groups' = {Derive(catalog[i]).Group : i \in DOMAIN catalog}
    /\ gpc' = "services"
    /\ UNCHANGED <<catalog, pending, units, gerr, faults, camelVars, callVars>>

\* format.Source, os.Create and fh.Write of one output unit; what to do after the
\* unit is the caller's
EmitUnit(file, body, wrap, after) ==
    \/ /\ Fail(file, "format", Wrap(Wrap("syntax", "failed to format code"), wrap))
       /\ UNCHANGED <<units, pending>>
    \/ /\ Fail(file, "create",
               Wrap(Wrap("EACCES", "failed to open file " \o file \o " for writing"), wrap))
       /\ UNCHANGED <<units, pending>>
    \/ /\ units' = SetUnit(units, file, body, TRUE)
       /\ after
       /\ UNCHANGED <<gerr, faults>>
    \/ /\ units' = SetUnit(units, file, <<>>, FALSE)   \* fh.Write fails; result unused
       /\ faults' = faults \cup {[unit |-> file, kind |-> "write"]}
       /\ after
       /\ UNCHANGED gerr

GenerateServices ==
    /\ gpc = "services"
    /\ EmitUnit("services.go", ServicesBody(groups), "failed to generate services file",
                /\ pending' = DOMAIN group
                /\ gpc' = "details")
    /\ UNCHANGED <<catalog, groups, group, camelVars, callVars>>

\* one iteration of the range over the group map, in any key order
GenerateDetails ==
    /\ gpc = "details"
    /\ \E fn \in pending :
          EmitUnit(fn, DetailsBody(group[fn]), "failed to generate file " \o fn,
                   /\ pending' = pending \ {fn}
                   /\ gpc' = "details")
    /\ UNCHANGED <<catalog, groups, group, camelVars, callVars>>

Finish ==
    /\ gpc = "details" /\ pending = {}
    /\ gpc' = "done"
    /\ UNCHANGED <<catalog, groups, group, pending, units, gerr, faults, camelVars, callVars>>

(***************************************************************************)
(* The emitted code: field types and their values                          *)
(***************************************************************************)
\* the switch on arg.Type in the Values emission
TypeKind(t) ==
    CASE t = "string" -> "string"
      [] t = "bool" -> "bool"
      [] t = "int" -> "int"
      [] OTHER -> IF HasSuffix(t, "List") THEN "list" ELSE "object"

\* Go's zero value of a field
Zero(a) ==
    CASE TypeKind(a.Type) = "string" -> ""
      [] TypeKind(a.Type) = "bool" -> FALSE
      [] TypeKind(a.Type) = "int" -> 0
      [] TypeKind(a.Type) = "list" -> <<>>
      [] OTHER -> "nil"

TextVals == {"", "C1", "hi"}
ElemVals == {"e1", "bad"}
ObjectVals == {"nil", "o1", "bad"}

RECURSIVE ListsUpTo(_)
ListsUpTo(n) ==
    IF n = 0 THEN {<<>>}
    ELSE LET shorter == ListsUpTo(n - 1)
         IN shorter \cup {Append(l, e) : l \in {m \in shorter : Len(m) = n - 1}, e \in ElemVals}

\* the values a caller can pass for an argument
ValuesOfType(a) ==
    CASE TypeKind(a.Type) = "string" -> TextVals
      [] TypeKind(a.Type) = "bool" -> BOOLEAN
      [] TypeKind(a.Type) = "int" -> (0 - MaxInt)..MaxInt
      [] TypeKind(a.Type) = "list" -> ListsUpTo(MaxList)
      [] OTHER -> ObjectVals

Digits == "0123456789"

RECURSIVE Itoa(_)
\* strconv.Itoa
Itoa(n) ==
    IF n < 0 THEN "-" \o Itoa(0 - n)
    ELSE IF n < 10 THEN At(Digits, n + 1)
    ELSE Itoa(n \div 10) \o At(Digits, (n % 10) + 1)

\* Encode of an object: its text, or a failure
EncodeObject(o) ==
    IF o = "bad" THEN [ok |-> FALSE, s |-> ""] ELSE [ok |-> TRUE, s |-> "{" \o o \o "}"]

RECURSIVE JoinElems(_)
JoinElems(l) ==
    IF l = <<>> THEN ""
    ELSE IF Len(l) = 1 THEN "{" \o Head(l) \o "}"
    ELSE "{" \o Head(l) \o "}," \o JoinElems(Tail(l))

\* Encode of a list: fails when an element fails
EncodeList(l) ==
    IF \E i \in 1..Len(l) : l[i] = "bad"
    THEN [ok |-> FALSE, s |-> ""]
    ELSE [ok |-> TRUE, s |-> "[" \o JoinElems(l) \o "]"]

\* Append of a list type
ListAppend(l, e) == Append(l, e)

(***************************************************************************)
(* The emitted code: Values                                                *)
(***************************************************************************)
\* requiredCheck: TRUE when the emitted test reports the parameter missing
RequiredCheck(a, x) ==
    CASE TypeKind(a.Type) = "string" -> Len(x) <= 0
      [] TypeKind(a.Type) = "bool" -> ~x
      [] TypeKind(a.Type) = "int" -> x = 0
      [] TypeKind(a.Type) = "list" -> Len(x) <= 0
      [] OTHER -> x = "nil"

OptionalCheckAlways(a, x) == TRUE

\* optionalCheck: TRUE when the emitted test lets the parameter be set
OptionalCheck(a, x) ==
    CASE TypeKind(a.Type) = "string" -> Len(x) > 0
      [] TypeKind(a.Type) = "bool" -> x
      [] TypeKind(a.Type) = "int" -> x > 0
      [] TypeKind(a.Type) = "list" -> Len(x) > 0
      [] OTHER -> x # "nil"

\* prelude: the Encode call emitted for list and object types
Prelude(a, x) ==
    CASE TypeKind(a.Type) = "list" -> EncodeList(x)
      [] TypeKind(a.Type) = "object" -> EncodeObject(x)
      [] OTHER -> [ok |-> TRUE, s |-> ""]

\* assignValue
AssignValue(a, x) ==
    CASE TypeKind(a.Type) = "string" -> x
      [] TypeKind(a.Type) = "bool" -> "true"
      [] TypeKind(a.Type) = "int" -> Itoa(x)
      [] OTHER -> Prelude(a, x).s

QueryKeyAlwaysName(a) == a.Name

\* qn
QueryKey(a) == IF Len(a.QueryName) > 0 THEN a.QueryName ELSE a.Name

NoValues == [k \in {} |-> ""]

\* url.Values.Set
VSet(v, k, x) == [q \in DOMAIN v \cup {k} |-> IF q = k THEN x ELSE v[q]]

Failed(msg) == [nil |-> TRUE, v |-> NoValues, err |-> msg]

FailedPartial(v, msg) == [nil |-> FALSE, v |-> v, err |-> msg]

MissingRequiredKeepsPartial(v, a) ==
    FailedPartial(v, "missing required parameter " \o a.Name)

\* return nil, errors.New(`missing required parameter <name>`)
MissingRequired(v, a) == Failed("missing required parameter " \o a.Name)

PrologueNoToken(ep, tok) == NoValues

\* v := url.Values{} and the token, unless the endpoint skips it
Prologue(ep, tok) == IF ~ep.SkipToken THEN VSet(NoValues, "token", tok) ELSE NoValues

RECURSIVE ValuesLoop(_, _, _, _)
\* the statements emitted for the arguments from the i-th on, in the emitted order
ValuesLoop(args, f, i, v) ==
    IF i > Len(args) THEN [nil |-> FALSE, v |-> v, err |-> ""]
    ELSE LET a == args[i]
             x == f[a.Name]
         IN IF a.Required
            THEN IF RequiredCheck(a, x) THEN MissingRequired(v, a)
                 ELSE IF ~Prelude(a, x).ok
                      THEN Failed(Wrap("encode", "failed to encode field"))
                      ELSE ValuesLoop(args, f, i + 1, VSet(v, QueryKey(a), AssignValue(a, x)))
            ELSE IF OptionalCheck(a, x)
                 THEN IF ~Prelude(a, x).ok
                      THEN Failed(Wrap("encode", "failed to encode field"))
                      ELSE ValuesLoop(args, f, i + 1, VSet(v, QueryKey(a), AssignValue(a, x)))
                 ELSE ValuesLoop(args, f, i + 1, v)

\* the Values method emitted for endpoint ep, on a call with fields f
ValuesOf(ep, tok, f) == ValuesLoop(SortArgs(ep.Args), f, 1, Prologue(ep, tok))

(***************************************************************************)
(* The emitted code: Do                                                    *)
(***************************************************************************)
\* what postForm can do: fail, or decode an envelope into res
PostOutcomes ==
    { [fail |-> TRUE,  ok |-> FALSE, error |-> "timeout",    payload |-> "nil"],
      [fail |-> FALSE, ok |-> FALSE, error |-> "not_authed", payload |-> "nil"],
      [fail |-> FALSE, ok |-> TRUE,  error |-> "",           payload |-> "data"] }

\* Do after c.Values() returned r: its error check, postForm, the check of res.OK
DoStages(r, ep, o) ==
    IF r.err # ""
    THEN [res |-> r, sent |-> FALSE, err |-> r.err, payload |-> "nil"]
    ELSE IF o.fail
    THEN [res |-> r, sent |-> TRUE, payload |-> "nil",
          err |-> Wrap(o.error, "failed to post to " \o ep.Name)]
    ELSE IF ~o.ok
    THEN [res |-> r, sent |-> TRUE, err |-> o.error, payload |-> "nil"]
    ELSE [res |-> r, sent |-> TRUE, err |-> "",
          payload |-> IF Len(ep.ReturnType) > 0 THEN o.payload ELSE "nil"]

\* a Do that posts whatever Values returned and looks at the error afterwards
DoPostFirst(ep, tok, f, o) ==
    LET r == ValuesOf(ep, tok, f)
        d == DoStages([r EXCEPT !.err = ""], ep, o)
    IN IF r.err # "" THEN [d EXCEPT !.res = r, !.err = r.err, !.payload = "nil"] ELSE d

\* a Do that keeps the mapping of its first run
DoMemo(ep, tok, f, o) ==
    DoStages(IF last.op = "Do" THEN last.res ELSE ValuesOf(ep, tok, f), ep, o)

\* the Do method emitted for endpoint ep, on a call with fields f
DoOf(ep, tok, f, o) == DoStages(ValuesOf(ep, tok, f), ep, o)

(***************************************************************************)
(* The emitted code: constructor and setters                               *)
(***************************************************************************)
CallIds == {1, 2}

ArgNames(ep) == {ep.Args[i].Name : i \in DOMAIN ep.Args}
RequiredArgs(ep) == {a \in Range(ep.Args) : a.Required}
OptionalArgs(ep) == {a \in Range(ep.Args) : ~a.Required}
ArgOf(ep, n) == CHOOSE a \in Range(ep.Args) : a.Name = n

ZeroCall(ep) == [n \in ArgNames(ep) |-> Zero(ArgOf(ep, n))]

RECURSIVE ParamsOver(_)
ParamsOver(A) ==
    IF A = {} THEN {[n \in {} |-> ""]}
    ELSE LET a == CHOOSE b \in A : TRUE
         IN {[n \in DOMAIN p \cup {a.Name} |-> IF n = a.Name THEN x ELSE p[n]] :
                p \in ParamsOver(A \ {a}), x \in ValuesOfType(a)}

\* the parameter lists a caller can pass to the constructor
Params(ep) == ParamsOver(RequiredArgs(ep))

\* var call XCall; call.<arg> = <arg> for the required ones
Construct(ep, p) ==
    [n \in ArgNames(ep) |-> IF n \in DOMAIN p THEN p[n] ELSE Zero(ArgOf(ep, n))]

AssignAllCalls(cs, c, n, x) == [d \in DOMAIN cs |-> [cs[d] EXCEPT ![n] = x]]

\* c.<arg> = <arg>
AssignField(cs, c, n, x) == [cs EXCEPT ![c][n] = x]

\* c.<arg>.Append(<singular>)
AppendField(cs, c, n, e) == [cs EXCEPT ![c][n] = ListAppend(cs[c][n], e)]

NoHist(ep) ==
    [n \in ArgNames(ep) |->
        [kind |-> "none", arg |-> Zero(ArgOf(ep, n)), base |-> Zero(ArgOf(ep, n)),
         appended |-> <<>>]]

NoLast ==
    [op |-> "none", call |-> 0, fields |-> <<>>, res |-> Failed(""), sent |-> FALSE,
     outcome |-> "", err |-> "", payload |-> "nil"]

\* the constructor method of the service
New(c) ==
    /\ c \notin built
    /\ \E p \in Params(endpoint) :
          /\ calls' = [calls EXCEPT ![c] = Construct(endpoint, p)]
          /\ hist' = [hist EXCEPT ![c] = [n \in ArgNames(endpoint) |->
                        IF n \in DOMAIN p THEN [NoHist(endpoint)[n] EXCEPT !.base = p[n]]
                        ELSE NoHist(endpoint)[n]]]
    /\ built' = built \cup {c}
    /\ UNCHANGED <<endpoint, token, posted, last, camelVars, genVars>>

\* the setter of an optional argument (the replacing setter of a list argument)
Set(c) ==
    /\ c \in built
    /\ \E a \in OptionalArgs(endpoint) : \E x \in ValuesOfType(a) :
          /\ calls' = AssignField(calls, c, a.Name, x)
          /\ hist' = [hist EXCEPT ![c][a.Name] =
                        [kind |-> "set", arg |-> x, base |-> x, appended |-> <<>>]]
    /\ UNCHANGED <<endpoint, token, built, posted, last, camelVars, genVars>>

\* the appending setter of an optional list argument
AppendTo(c) ==
    /\ c \in built
    /\ \E a \in OptionalArgs(endpoint) : \E e \in ElemVals :
          /\ TypeKind(a.Type) = "list"
          /\ Len(calls[c][a.Name]) < MaxList
          /\ calls' = AppendField(calls, c, a.Name, e)
          /\ hist' = [hist EXCEPT ![c][a.Name] =
                        [@ EXCEPT !.kind = "append", !.arg = <<e>>,
                                  !.appended = Append(@, e)]]
    /\ UNCHANGED <<endpoint, token, built, posted, last, camelVars, genVars>>

\* a call of Values
ValuesCall(c) ==
    /\ c \in built
    /\ last' = [NoLast EXCEPT !.op = "Values", !.call = c, !.fields = calls[c],
                              !.res = ValuesOf(endpoint, token, calls[c])]
    /\ UNCHANGED <<endpoint, token, calls, built, hist, posted, camelVars, genVars>>

\* a call of Do, with what postForm does when it is reached
Do(c) ==
    /\ c \in built
    /\ posted < MaxPosts
    /\ \E o \in PostOutcomes :
          LET d == DoOf(endpoint, token, calls[c], o)
          IN /\ last' = [op |-> "Do", call |-> c, fields |-> calls[c], res |-> d.res,
                         sent |-> d.sent, err |-> d.err, payload |-> d.payload,
                         outcome |-> IF ~d.sent THEN "" ELSE
                                     IF o.fail THEN "fail" ELSE IF o.ok THEN "ok" ELSE "not_ok"]
             /\ posted' = IF d.sent THEN posted + 1 ELSE posted
    /\ UNCHANGED <<endpoint, token, calls, built, hist, camelVars, genVars>>

\* the catalogs of a run: the first CatalogSize endpoint definitions, endpoints and
\* arguments in any order
Catalogs ==
    LET n == IF CatalogSize < Len(Endpoints) THEN CatalogSize ELSE Len(Endpoints)
        each == UNION {Variants(Endpoints[i]) : i \in 1..n}
    IN {c \in [1..n -> each] : \A i, j \in 1..n : i # j => c[i].Name # c[j].Name}

CallIdle ==
    /\ endpoint = Endpoints[1] /\ token = "" /\ calls = <<>> /\ built = {}
    /\ hist = <<>> /\ posted = 0 /\ last = NoLast

InitCamel ==
    /\ cin \in CamelInputs /\ cout = "" /\ cpc = "call"
    /\ GenIdle /\ CallIdle

SpecCamel == InitCamel /\ [][CamelCall]_vars

InitGen ==
    /\ gpc = "open" /\ catalog \in Catalogs /\ groups = {} /\ group = NoFile
    /\ pending = {} /\ units = NoFile /\ gerr = "" /\ faults = {}
    /\ CamelIdle /\ CallIdle

NextGen ==
    \/ OpenCatalog
    \/ DecodeCatalog
    \/ GroupEndpoints
    \/ GenerateServices
    \/ GenerateDetails
    \/ Finish

SpecGen == InitGen /\ [][NextGen]_vars

\* the emitted code of any endpoint definition, no call constructed yet
InitCall ==
    /\ endpoint \in UNION {Variants(Endpoints[i]) : i \in DOMAIN Endpoints}
    /\ token = "xoxb"
    /\ calls = [c \in CallIds |-> ZeroCall(endpoint)]
    /\ hist = [c \in CallIds |-> NoHist(endpoint)]
    /\ built = {} /\ posted = 0 /\ last = NoLast
    /\ CamelIdle /\ GenIdle

Next ==
    \/ New(1)
    \/ Set(1)
    \/ AppendTo(1)
    \/ ValuesCall(1)
    \/ Do(1)

Spec == InitCall /\ [][Next]_vars

NextSet ==
    \E c \in CallIds :
        \/ New(c)
        \/ Set(c)
        \/ AppendTo(c)

SpecSet == InitCall /\ [][NextSet]_vars

(***************************************************************************)
(* Properties of Values                                                    *)
(***************************************************************************)
\* the emptiness test of each type, as the interface describes it
IsEmpty(a, x) ==
    CASE TypeKind(a.Type) = "string" -> Len(x) = 0
      [] TypeKind(a.Type) = "bool" -> x = FALSE
      [] TypeKind(a.Type) = "int" -> x = 0
      [] TypeKind(a.Type) = "list" -> Len(x) = 0
      [] OTHER -> x = "nil"

\* the encoded string of a set value, as the interface describes it
Encoded(a, x) ==
    CASE TypeKind(a.Type) = "string" -> x
      [] TypeKind(a.Type) = "bool" -> "true"
      [] TypeKind(a.Type) = "int" -> Itoa(x)
      [] TypeKind(a.Type) = "list" -> EncodeList(x).s
      [] OTHER -> EncodeObject(x).s

EncodeFails(a, x) ==
    /\ TypeKind(a.Type) \in {"list", "object"}
    /\ ~IsEmpty(a, x)
    /\ ~(IF TypeKind(a.Type) = "list" THEN EncodeList(x).ok ELSE EncodeObject(x).ok)

KeyOf(a) == IF a.QueryName # "" THEN a.QueryName ELSE a.Name

\* Values has run (on its own or inside Do); last holds the fields it read and its result
Called == last.op # "none"

EmptyRequired(f) == {a \in RequiredArgs(endpoint) : IsEmpty(a, f[a.Name])}

\* the empty required argument that comes first by name
FirstByName(A) == CHOOSE a \in A : \A b \in A \ {a} : StrLess(a.Name, b.Name)

\* C1 as stated: whenever a required argument is empty, Values returns no mapping
\* and the error "missing required parameter <name>" naming the first empty
\* required argument of the check order (the emitted one, by name).
C1_MissingNamesFirstEmpty ==
    (Called /\ EmptyRequired(last.fields) # {}) =>
        /\ last.res.nil /\ last.res.v = NoValues
        /\ last.res.err =
              "missing required parameter " \o FirstByName(EmptyRequired(last.fields)).Name

\* C1 amended: whenever a required argument is empty, Values fails and returns no
\* mapping at all; the arguments are checked in order of name (not of the catalog),
\* and the error names the first empty required argument in that order, unless an
\* argument before it in that order is set and fails to encode, in which case the
\* error is the wrapped encode failure.
C1_FailsAtFirstInNameOrder ==
    (Called /\ EmptyRequired(last.fields) # {}) =>
        LET a == FirstByName(EmptyRequired(last.fields))
            before == {b \in Range(endpoint.Args) : StrLess(b.Name, a.Name)}
        IN /\ last.res.nil /\ last.res.v = NoValues
           /\ IF \E b \in before : EncodeFails(b, last.fields[b.Name])
              THEN last.res.err = "failed to encode field: encode"
              ELSE last.res.err = "missing required parameter " \o a.Name

\* two required arguments are empty, the catalog lists "user" first, and the error
\* names "all", the first by name
C1_Witness ==
    /\ last.op = "Values"
    /\ endpoint.Name = "users.profile.set"
    /\ endpoint.Args[1].Name = "user"
    /\ last.fields["user"] = "nil" /\ last.fields["all"] = FALSE
    /\ last.res.nil
    /\ last.res.err = "missing required parameter all"

\* C2 as stated: a successful mapping omits an optional argument's key exactly when
\* the argument is empty (integer: equal to 0) and otherwise holds its encoded value
\* under queryName, or under name when there is no queryName; so every non-zero
\* integer is sent as its decimal string.
C2_OptionalOmittedIffEmpty ==
    (Called /\ ~last.res.nil) =>
        \A a \in OptionalArgs(endpoint) :
            IF IsEmpty(a, last.fields[a.Name])
            THEN KeyOf(a) \notin DOMAIN last.res.v
            ELSE /\ KeyOf(a) \in DOMAIN last.res.v
                 /\ last.res.v[KeyOf(a)] = Encoded(a, last.fields[a.Name])

C4_TokenUnlessSkipped ==
    (Called /\ ~last.res.nil) =>
        /\ ~endpoint.SkipToken =>
              ("token" \in DOMAIN last.res.v /\ last.res.v["token"] = token)
        /\ endpoint.SkipToken => "token" \notin DOMAIN last.res.v
        /\ (endpoint.Name = "chat.postMessage" /\ last.fields["channel"] = "C1") =>
              /\ last.fields["text"] = "" =>
                    last.res.v = [k \in {"token", "channel"} |->
                                    IF k = "token" THEN token ELSE "C1"]
              /\ last.fields["text"] = "hi" =>
                    last.res.v = [k \in {"token", "channel", "text"} |->
                                    IF k = "token" THEN token
                                    ELSE IF k = "channel" THEN "C1" ELSE "hi"]

\* Do on chat.postMessage("C1") after the text setter was called with "hi"
C4_Witness ==
    /\ last.op = "Do" /\ last.sent
    /\ endpoint.Name = "chat.postMessage"
    /\ last.fields["channel"] = "C1" /\ last.fields["text"] = "hi"
    /\ hist[1]["text"].kind = "set"
    /\ DOMAIN last.res.v = {"token", "channel", "text"}

(***************************************************************************)
(* Properties of Do                                                        *)
(***************************************************************************)
\* C5: Do serializes, then submits, then checks the envelope, and stops at the
\* first stage that fails: a failed Values is returned as it is and nothing is
\* submitted; a failed submission is returned wrapped with the endpoint name; an
\* envelope that is not ok gives its error description, whatever the return type;
\* a payload comes back only when all three stages succeed.
C5_DoStopsAtFirstFailingStage ==
    last.op = "Do" =>
        /\ last.res.err # "" =>
              /\ ~last.sent /\ last.outcome = ""
              /\ last.err = last.res.err /\ last.payload = "nil"
        /\ last.res.err = "" =>
              /\ last.sent /\ ~last.res.nil
              /\ last.outcome = "fail" =>
                    /\ last.err = "failed to post to " \o endpoint.Name \o ": timeout"
                    /\ last.payload = "nil"
              /\ last.outcome = "not_ok" =>
                    /\ last.err = "not_authed"
                    /\ last.payload = "nil"
              /\ last.outcome = "ok" =>
                    /\ last.err = ""
                    /\ last.payload = IF endpoint.ReturnType # "" THEN "data" ELSE "nil"

\* Do on an endpoint with a return type got the envelope {ok: false, error: not_authed}
C5_Witness ==
    /\ last.op = "Do" /\ last.sent
    /\ endpoint.ReturnType # ""
    /\ last.outcome = "not_ok"
    /\ last.err = "not_authed"

\* C10: Values and Do leave the fields alone; every Do serializes the fields as they
\* are when it runs (nothing is kept from an earlier Do, so a setter called in
\* between is seen) and issues exactly one submission when that succeeds, none
\* otherwise.
C10_DoRepeatsFromCurrentFields ==
    [][ /\ (last'.op = "Do" /\ (last' # last \/ posted' # posted)) =>
              /\ calls' = calls
              /\ last'.fields = calls[last'.call]
              /\ last'.res = ValuesOf(endpoint, token, calls[last'.call])
              /\ posted' = posted + (IF last'.res.err = "" THEN 1 ELSE 0)
        /\ (last'.op = "Values" /\ last' # last) =>
              /\ calls' = calls /\ posted' = posted
              /\ last'.res = ValuesOf(endpoint, token, calls[last'.call])
      ]_vars

\* a second Do on the same call has submitted the text a setter wrote
C10_Witness ==
    /\ posted >= 2
    /\ last.op = "Do" /\ last.sent
    /\ endpoint.Name = "chat.postMessage"
    /\ hist[1]["text"].kind = "set"
    /\ "text" \in DOMAIN last.res.v /\ last.res.v["text"] = "hi"
    /\ last.fields = calls[1]

(***************************************************************************)
(* Properties of the setters                                               *)
(***************************************************************************)
\* C6 as stated: two calls constructed alike whose setter invocations agree, field
\* by field, on the last one made (which setter, with which value) hold equal fields.
C6_LastWriteDecidesEveryField ==
    \A c1, c2 \in built :
        ( /\ \A a \in RequiredArgs(endpoint) : calls[c1][a.Name] = calls[c2][a.Name]
          /\ \A a \in OptionalArgs(endpoint) :
                /\ hist[c1][a.Name].kind = hist[c2][a.Name].kind
                /\ hist[c1][a.Name].arg = hist[c2][a.Name].arg )
        => calls[c1] = calls[c2]

\* C6 amended: a field holds the value last assigned to it by its (replacing)
\* setter, or its constructor or zero value when none was, followed, for a list
\* field, by the elements its appending setter added since, in the order added;
\* setters of other fields and of other call objects do not matter.
C6_LastAssignedThenAppended ==
    \A c \in CallIds :
        IF c \notin built
        THEN calls[c] = ZeroCall(endpoint)
        ELSE \A a \in Range(endpoint.Args) :
                calls[c][a.Name] =
                    IF TypeKind(a.Type) = "list"
                    THEN hist[c][a.Name].base \o hist[c][a.Name].appended
                    ELSE hist[c][a.Name].base

\* two calls whose last setter invocation on the list is the same append, holding
\* different lists
C6_Witness ==
    /\ built = CallIds
    /\ endpoint.Name = "chat.update"
    /\ calls[1]["ts"] = calls[2]["ts"]
    /\ hist[1]["attachments"].kind = "append"
    /\ hist[1]["attachments"] # hist[2]["attachments"]
    /\ hist[1]["attachments"].arg = hist[2]["attachments"].arg
    /\ hist[2]["attachments"].kind = "append"
    /\ calls[1] # calls[2]

(***************************************************************************)
(* Properties of the generator run                                         *)
(***************************************************************************)
InCatalog(name) == CHOOSE e \in Range(catalog) : e.Name = name

\* C7: a run that meets no I/O fault leaves exactly one output per catalog content:
\* services.go lists the groups in ascending order, each unit lists its endpoints
\* ascending by name, each with its arguments ascending by name, whatever the
\* order of the catalog and of the map iteration.
C7_OutputDependsOnContentOnly ==
    (gpc = "done" /\ faults = {}) =>
        /\ DOMAIN units = {"services.go"} \cup {Derive(e).file : e \in Range(catalog)}
        /\ \A f \in DOMAIN units : units[f].complete
        /\ LET b == units["services.go"].body
           IN /\ Range(b) = {Derive(e).Group : e \in Range(catalog)}
              /\ \A i \in 1..(Len(b) - 1) : StrLess(b[i], b[i + 1])
        /\ \A f \in DOMAIN units \ {"services.go"} :
              LET b == units[f].body
              IN /\ {b[i].Name : i \in DOMAIN b} =
                        {e.Name : e \in {x \in Range(catalog) : Derive(x).file = f}}
                 /\ \A i \in 1..(Len(b) - 1) : StrLess(b[i].Name, b[i + 1].Name)
                 /\ \A i \in DOMAIN b :
                       LET e == InCatalog(b[i].Name)
                       IN /\ [b[i] EXCEPT !.Args = <<>>] = [Derive(e) EXCEPT !.Args = <<>>]
                          /\ Len(b[i].Args) = Len(e.Args)
                          /\ Range(b[i].Args) = Range(e.Args)
                          /\ \A k \in 1..(Len(e.Args) - 1) :
                                StrLess(b[i].Args[k].Name, b[i].Args[k + 1].Name)

\* a finished run over a catalog that lists chat.update before chat.postMessage
C7_Witness ==
    /\ gpc = "done" /\ faults = {}
    /\ \E i, j \in DOMAIN catalog :
          i < j /\ catalog[i].Name = "chat.update" /\ catalog[j].Name = "chat.postMessage"
    /\ units["chat.go"].body[1].Name = "chat.postMessage"

\* C9 as stated: the run stops at its first failure: once a read, decode, format,
\* create or write has failed the run has ended with an error; after a catalog
\* failure no unit exists; after a unit's failure the error identifies that unit
\* and no other failure follows.
C9_RunStopsAtFirstFailure ==
    faults # {} =>
        /\ gpc = "failed"
        /\ Cardinality(faults) = 1
        /\ \A x \in faults :
              /\ x.kind \in {"open", "decode"} => units = NoFile
              /\ x.kind \in {"format", "create", "write"} =>
                    IF x.unit = "services.go"
                    THEN SubSeq(gerr, 1, 32) = "failed to generate services file"
                    ELSE SubSeq(gerr, 1, 23 + Len(x.unit)) = "failed to generate file " \o x.unit

(***************************************************************************)
(* Properties of camelit                                                   *)
(***************************************************************************)
RECURSIVE Transformed(_, _)
\* the transform as described: separators dropped, the first character and every
\* character after a separator upper-cased, the rest unchanged
Transformed(s, i) ==
    IF i > Len(s) THEN ""
    ELSE IF IsSeparator(At(s, i)) THEN Transformed(s, i + 1)
    ELSE (IF i = 1 \/ IsSeparator(At(s, i - 1)) THEN ToUpper(At(s, i)) ELSE At(s, i))
            \o Transformed(s, i + 1)

\* C8 as stated: the result holds no "." and no "_", and is the input with the
\* separators dropped and the first character and each character after a separator
\* upper-cased; "chat.postMessage" gives "ChatPostMessage" and "a_b.c" gives "ABC".
C8_SeparatorsNeverEmitted ==
    cpc = "done" =>
        /\ \A i \in 1..Len(cout) : ~IsSeparator(At(cout, i))
        /\ cout = Transformed(cin, 1)
        /\ cin = "" => cout = ""
        /\ cin = "chat.postMessage" => cout = "ChatPostMessage"
        /\ cin = "a_b.c" => cout = "ABC"
====
